---- MODULE Spec2Model ----
(***************************************************************************)
(* State-machine model of neurokernel/MockSystem/MockSystem.py:            *)
(* MockSystem (__init__, init_gpu, run_step), CircularArray, MorrisLecar   *)
(* and VectorSynapse.  Device memory of the delay buffer is modelled as an *)
(* array of doubles addressed by element offset; byte offsets used by the  *)
(* code are converted with the item size of np.double.  Real quantities    *)
(* are abstracted to small integers: dt is the rational dtNum/dtDen (in    *)
(* milliseconds), voltages are levels 0..NumVolt-1.  The three CUDA        *)
(* kernels the Python code launches (get_input, hhn_euler_multiple,        *)
(* update_terminal_synapse) are not part of the Python source; they are    *)
(* modelled after the design document, the integrator as one step per tick *)
(* on voltage levels.  Reads and writes outside an allocation, and reads   *)
(* of uninitialised device memory, are nondeterministic choices.           *)
(***************************************************************************)
EXTENDS Integers, Sequences, FiniteSets, TLC

\* ---------------------------------------------------------------- constants
\* Number of neuron types, bytes of an np.double, synaptic delay in ms.
NumTypes == 15
ItemSize == 8
DelayMs == 1

\* ------------------------------------------------------------------- bounds
\* Largest denominator of dt (so the buffer depth is at most MaxDtDen),
\* number of run_step calls, number of voltage levels, and the pitch
\* granularity of the buffer allocation in units of ItemSize doubles.
MaxDtDen == 2
MaxTicks == 3
NumVolt == 3
PitchBlocks == 2

Volt == 0 .. (NumVolt - 1)

\* Values of one external-current entry.
CurrentVals == {0, 1}

\* ------------------------------------------------------------ pure helpers
Abs(x) == IF x < 0 THEN -x ELSE x

Sign(x) == IF x < 0 THEN -1 ELSE 1

Mod(a, m) == a % m

RECURSIVE Gcd(_, _)
Gcd(a, b) == IF b = 0 THEN a ELSE Gcd(b, a % b)

\* Python 2 round() of the rational num/den (den # 0): half away from zero.
PyRound(num, den) ==
    Sign(num) * Sign(den) * ((2 * Abs(num) + Abs(den)) \div (2 * Abs(den)))

\* numpy.round of the rational num/den (den # 0): half to even.
NpRound(num, den) ==
    LET q == Abs(num) \div Abs(den)
        r == Abs(num) - q * Abs(den)
        m == IF 2 * r < Abs(den) THEN q
             ELSE IF 2 * r > Abs(den) THEN q + 1
             ELSE IF q % 2 = 0 THEN q ELSE q + 1
    IN Sign(num) * Sign(den) * m

\* A vector over neurons 0..n-1 whose entry i is (x + i) mod NumVolt.
VoltVec(n, x) == [i \in 0 .. (n - 1) |-> (x + i) % NumVolt]

ConstVec(n, c) == [i \in 0 .. (n - 1) |-> c]

Len0(f) == Cardinality(DOMAIN f)

IsSorted(f) == \A a, b \in DOMAIN f : a <= b => f[a] <= f[b]

Max0(f) == CHOOSE m \in {f[a] : a \in DOMAIN f} : \A a \in DOMAIN f : f[a] <= m

\* scipy.bincount of an array of non-negative integers: length max+1,
\* length 0 for the empty array.
Bincount(post) ==
    IF DOMAIN post = {} THEN [i \in {} |-> 0]
    ELSE [i \in 0 .. Max0(post) |-> Cardinality({j \in DOMAIN post : post[j] = i})]

RECURSIVE SumTo(_, _)
SumTo(f, k) == IF k < 0 THEN 0 ELSE f[k] + SumTo(f, k - 1)

\* np.concatenate(([0], np.cumsum(num_dendrite))).
CumNumDendrite(num_dendrite) ==
    [i \in 0 .. Len0(num_dendrite) |-> SumTo(num_dendrite, i - 1)]

\* Leading dimension (in elements) of the pitched allocation of a row of n
\* doubles: the row length rounded up to the pitch granularity.
Ld(n) ==
    LET g == PitchBlocks * ItemSize
    IN ((n + g - 1) \div g) * g

\* cuda.memcpy_dtod of the nelems doubles of vec to byte offset byteOff of m.
MemCopy(m, byteOff, vec, nelems) ==
    LET e0 == byteOff \div ItemSize
    IN [e \in DOMAIN m |->
           IF e >= e0 /\ e < e0 + nelems THEN vec[e - e0] ELSE m[e]]

\* ------------------------------------------------------------------- state
VARIABLES
    pc,          \* position: "new", "constructed", "ready", a phase of run_step, "error", "crashed"
    err,         \* the exception that ended construction or a tick, "" if none
    sys,         \* attributes of MockSystem
    post_neuron, \* init_gpu's local post_neuron (VectorSynapse does not keep it)
    buf,         \* the CircularArray: delay_steps, ld, current and the device memory
    neu,         \* the MorrisLecar object
    syn,         \* the VectorSynapse object
    I_ext,       \* the in_non_list argument of the running run_step call
    out,         \* the proj_non host array filled by the last Emit
    tick,        \* number of run_step calls that returned
    hist,        \* history: the voltage vectors written by eval, in order
    vread,       \* history: per synapse, the voltage its last update read
    writes,      \* history: number of times eval wrote the buffer
    advances,    \* history: number of times CircularArray.step ran
    trace,       \* history: the phases executed by the running call, in order
    twin         \* a second MockSystem built from the same arguments, if any

vars == <<pc, err, sys, post_neuron, buf, neu, syn, I_ext, out, tick, hist,
          vread, writes, advances, trace, twin>>

Empty == [i \in {} |-> 0]

NoSys == [num_neurons |-> 0, num_synapses |-> 0, dtNum |-> 1, dtDen |-> 1,
          num_in_non |-> 0, start_idx |-> Empty, num_dendrites |-> Empty,
          delay_steps |-> 0]

NoBuf == [num_neurons |-> 0, delay_steps |-> 0, ld |-> 0, current |-> 0,
          mem |-> Empty]

NoNeu == [V |-> Empty, n |-> Empty, I_pre |-> Empty, cum_num_dendrite |-> Empty,
          num_dendrite |-> Empty, num_input |-> 0]

NoSyn == [num_synapse |-> 0, pre_neuron |-> Empty, delay |-> Empty,
          conductance |-> Empty, V_rev |-> Empty, threshold |-> Empty]

NoTwin == [buf |-> NoBuf, neu |-> NoNeu, syn |-> NoSyn, hist |-> <<>>]

Init ==
    /\ pc = "new"
    /\ err = ""
    /\ sys = NoSys
    /\ post_neuron = Empty
    /\ buf = NoBuf
    /\ neu = NoNeu
    /\ syn = NoSyn
    /\ I_ext = Empty
    /\ out = Empty
    /\ tick = 0
    /\ hist = <<>>
    /\ vread = Empty
    /\ writes = 0
    /\ advances = 0
    /\ trace = <<>>
    /\ twin = NoTwin

\* ------------------------------------------------------------ construction
\* The arguments tried.  num_neurons_per_type: none or one neuron per type.
PerTypeChoices == {0, 1}

\* avr_synapses_per_neuron in fifteenths: no synapse, or one per 15 neurons.
Avr15Choices == {0, 1}

\* dt = dtNum / dtDen milliseconds in lowest terms: negative, zero, and
\* positive up to three times the synaptic delay.
DtNumChoices == {-1, 0, 1, 2, 3}

\* num_in_non: no channel, one channel per neuron, and the first value
\* whose quotient by num_neurons leaves the neuron_start table.
InNonChoices == {0, NumTypes, NumTypes * NumTypes}

\* MockSystem.__init__
MockSystem__init__ ==
    /\ pc = "new"
    /\ \E npt \in PerTypeChoices, avr15 \in Avr15Choices,
          dn \in DtNumChoices, dd \in 1 .. MaxDtDen, inn \in InNonChoices :
          LET nn == npt * NumTypes
          IN /\ Gcd(Abs(dn), dd) = 1
             /\ sys' = [NoSys EXCEPT
                           !.num_neurons = nn,
                           !.num_synapses = (avr15 * nn) \div NumTypes,
                           !.dtNum = dn, !.dtDen = dd,
                           !.num_in_non = inn,
                           !.start_idx = [i \in 0 .. (NumTypes - 1) |->
                                             (nn \div NumTypes) * i]]
    /\ pc' = "constructed"
    /\ UNCHANGED <<err, post_neuron, buf, neu, syn, I_ext, out, tick, hist,
                   vread, writes, advances, trace, twin>>

\* Values the Python random module and numpy.random are taken to return.
RestChoices == {0, 1}
JunkChoices == {0, 2}
ThresChoices == {1}
RevChoices == {0}
GateChoices == {0}

\* numpy.random.random_integers(0, n) is inclusive of both ends; the draws
\* tried are the two ends, and for post_neuron also the last valid index.
PreChoices(n) == {0, n}
PostChoices(n) == {0, n - 1, n} \cap (0 .. n)

\* CircularArray.__init__: the allocation holds arbitrary data (junk in
\* every cell here) until the copies of rest overwrite it.
RECURSIVE Prefill(_, _, _, _, _, _)
Prefill(m, i, delay_steps, ld, rest, n) ==
    IF i >= delay_steps THEN m
    ELSE Prefill(MemCopy(m, ld * i, rest, n), i + 1, delay_steps, ld, rest, n)

CircularArray__init__(num_neurons, delay_steps, rest, junk) ==
    LET ld == Ld(num_neurons)
        raw == [e \in 0 .. (delay_steps * ld - 1) |-> junk]
    IN [num_neurons |-> num_neurons, delay_steps |-> delay_steps, ld |-> ld,
        current |-> 0,
        mem |-> Prefill(raw, 0, delay_steps, ld, rest, num_neurons)]

\* MorrisLecar.__init__
MorrisLecar__init__(num_neurons, neuron_start, num_dendrite, V, n, non_input_start) ==
    [V |-> V, n |-> n, I_pre |-> ConstVec(num_neurons, 0),
     cum_num_dendrite |-> CumNumDendrite(num_dendrite),
     num_dendrite |-> num_dendrite,
     num_input |-> neuron_start[non_input_start]]

\* VectorSynapse.__init__ leaving the conductances as allocated.
VectorSynapse__init__Empty(num_synapse, pre_neuron, thres, V_rev, dtNum, dtDen) ==
    [num_synapse |-> num_synapse, pre_neuron |-> pre_neuron,
     delay |-> [j \in 0 .. (num_synapse - 1) |-> NpRound(DelayMs * dtDen, dtNum)],
     conductance |-> [j \in 0 .. (num_synapse - 1) |-> 1],
     V_rev |-> V_rev, threshold |-> thres]

\* VectorSynapse.__init__: syn_delay is DelayMs for every synapse.
VectorSynapse__init__(num_synapse, pre_neuron, thres, V_rev, dtNum, dtDen) ==
    [num_synapse |-> num_synapse, pre_neuron |-> pre_neuron,
     delay |-> [j \in 0 .. (num_synapse - 1) |-> NpRound(DelayMs * dtDen, dtNum)],
     conductance |-> [j \in 0 .. (num_synapse - 1) |-> 0],
     V_rev |-> V_rev, threshold |-> thres]

\* int(round(max(delay) * 1e-3 / self.dt))
DelaySteps(dtNum, dtDen) == PyRound(DelayMs * dtDen, dtNum)

\* The exception init_gpu raises for the given MockSystem, "" if none:
\* max() of an empty delay array (line 86), division by a zero dt (line 86),
\* an allocation of negative depth (line 121), an index outside
\* neuron_start (line 170).
InitGpuError(s) ==
    IF s.num_synapses = 0 THEN "ValueError"
    ELSE IF s.dtNum = 0 THEN "ZeroDivisionError"
    ELSE IF DelaySteps(s.dtNum, s.dtDen) < 0 THEN "AllocationError"
    ELSE IF s.num_in_non \div s.num_neurons \notin DOMAIN s.start_idx THEN "IndexError"
    ELSE ""

\* MockSystem.init_gpu, raising.
init_gpu_raises ==
    /\ pc = "constructed"
    /\ InitGpuError(sys) # ""
    /\ pc' = "error"
    /\ err' = InitGpuError(sys)
    /\ UNCHANGED <<sys, post_neuron, buf, neu, syn, I_ext, out, tick, hist,
                   vread, writes, advances, trace, twin>>

\* MockSystem.init_gpu, returning.
init_gpu ==
    /\ pc = "constructed"
    /\ InitGpuError(sys) = ""
    /\ LET nn == sys.num_neurons
           S == sys.num_synapses
           J == 0 .. (S - 1)
       IN \E pre \in [J -> PreChoices(nn)], post \in [J -> PostChoices(nn)],
             x \in RestChoices, g \in GateChoices, junk \in JunkChoices,
             th \in ThresChoices, rv \in RevChoices :
             LET V == VoltVec(nn, x)
                 nd == Bincount(post)
                 D == DelaySteps(sys.dtNum, sys.dtDen)
             IN /\ IsSorted(post)
                /\ post_neuron' = post
                /\ sys' = [sys EXCEPT !.num_dendrites = nd, !.delay_steps = D]
                /\ buf' = CircularArray__init__(nn, D, V, junk)
                /\ neu' = MorrisLecar__init__(nn, sys.start_idx, nd, V,
                                              ConstVec(nn, g),
                                              sys.num_in_non \div nn)
                /\ syn' = VectorSynapse__init__(S, pre, [j \in J |-> th],
                                                [j \in J |-> rv],
                                                sys.dtNum, sys.dtDen)
                /\ vread' = [j \in J |-> 0]
    /\ pc' = "ready"
    /\ UNCHANGED <<err, I_ext, out, tick, hist, writes, advances, trace, twin>>

\* ------------------------------------------------------------------ run_step
\* run_step with the cursor advanced before the synapse update.
AfterStepFirst(p) ==
    CASE p = "inject" -> "aggregate"
      [] p = "aggregate" -> "eval"
      [] p = "eval" -> "step"
      [] p = "step" -> "compute_synapse"
      [] p = "compute_synapse" -> "emit"
      [] p = "emit" -> "ready"

\* The statement of run_step that follows statement p.
After(p) ==
    CASE p = "inject" -> "aggregate"
      [] p = "aggregate" -> "eval"
      [] p = "eval" -> "compute_synapse"
      [] p = "compute_synapse" -> "emit"
      [] p = "emit" -> "step"
      [] p = "step" -> "ready"

\* Lengths of the in_non_list vectors a caller passes.
LenChoices == {0, 1, sys.num_in_non}

\* self.neurons.I_pre.fill(0); self.neurons.update_I_pre_input(in_non_list):
\* num_input doubles are copied from the caller's pointer whatever the
\* caller's vector holds; what lies behind its end is arbitrary (oob).
update_I_pre_input(I_pre, ext, num_input, oob) ==
    [i \in DOMAIN I_pre |->
        IF i < num_input THEN (IF i \in DOMAIN ext THEN ext[i] ELSE oob)
        ELSE I_pre[i]]

\* run_step without self.neurons.I_pre.fill(0).
InjectNoFill ==
    /\ pc = "ready"
    /\ tick < MaxTicks
    /\ \E L \in LenChoices, c \in CurrentVals, oob \in CurrentVals :
          /\ (L >= neu.num_input) => oob = 0
          /\ (L = 0) => c = 0
          /\ I_ext' = ConstVec(L, c)
          /\ neu' = [neu EXCEPT !.I_pre =
                        update_I_pre_input(neu.I_pre, ConstVec(L, c),
                                           neu.num_input, oob)]
    /\ trace' = <<"inject">>
    /\ pc' = After("inject")
    /\ UNCHANGED <<err, sys, post_neuron, buf, syn, out, tick, hist, vread,
                   writes, advances, twin>>

Inject ==
    /\ pc = "ready"
    /\ tick < MaxTicks
    /\ \E L \in LenChoices, c \in CurrentVals, oob \in CurrentVals :
          /\ (L >= neu.num_input) => oob = 0
          /\ (L = 0) => c = 0
          /\ I_ext' = ConstVec(L, c)
          /\ neu' = [neu EXCEPT !.I_pre =
                        update_I_pre_input(ConstVec(sys.num_neurons, 0),
                                           ConstVec(L, c), neu.num_input, oob)]
    /\ trace' = <<"inject">>
    /\ pc' = After("inject")
    /\ UNCHANGED <<err, sys, post_neuron, buf, syn, out, tick, hist, vread,
                   writes, advances, twin>>

RECURSIVE SumRange(_, _, _)
SumRange(f, lo, hi) == IF lo >= hi THEN 0 ELSE f[lo] + SumRange(f, lo + 1, hi)

\* Values a read behind the end of the dendrite tables makes the sum take.
AggJunkChoices == {0, 1}

\* The get_input kernel: neuron i adds conductance * (V_rev - V[i]) over the
\* synapses cum[i] .. cum[i+1]-1; a neuron without table entries reads
\* behind the tables and adds an arbitrary amount (oob).
get_input(I_pre, V, cum, conductance, V_rev, oob) ==
    [i \in DOMAIN I_pre |->
        IF (i + 1) \in DOMAIN cum
        THEN I_pre[i] + SumRange([j \in DOMAIN conductance |->
                                     conductance[j] * (V_rev[j] - V[i])],
                                 cum[i], cum[i + 1])
        ELSE I_pre[i] + oob]

Aggregate ==
    /\ pc = "aggregate"
    /\ \E oob \in AggJunkChoices :
          /\ (\A i \in DOMAIN neu.I_pre : (i + 1) \in DOMAIN neu.cum_num_dendrite)
                => oob = 0
          /\ neu' = [neu EXCEPT !.I_pre =
                        get_input(neu.I_pre, neu.V, neu.cum_num_dendrite,
                                  syn.conductance, syn.V_rev, oob)]
    /\ trace' = Append(trace, "aggregate")
    /\ pc' = After("aggregate")
    /\ UNCHANGED <<err, sys, post_neuron, buf, syn, I_ext, out, tick, hist,
                   vread, writes, advances, twin>>

\* Type of neuron i: the last t with start_idx[t] <= i.
TypeOf(start_idx, i) ==
    CHOOSE t \in DOMAIN start_idx :
        /\ start_idx[t] <= i
        /\ \A u \in DOMAIN start_idx : start_idx[u] <= i => u <= t

\* offset = [0, 0, 0, 0, 0, 0, .2, .2, .2, .2, .2, .2, .2, .2, 0] in levels.
OffsetOf(t) == IF t >= 6 /\ t <= 13 THEN 1 ELSE 0

\* The hhn_euler_multiple kernel on voltage levels: the gating variable
\* relaxes to its steady state, the voltage moves by the total current
\* minus the ionic current, wrapped into the level range.
EulerN(V, n) == V % 2

EulerV(V, n, I, off) == (V + I + off - n) % NumVolt

\* The slot offset taken in elements where the pointer counts bytes.
EvalOffsetElems(b) == b.current * b.ld

\* Byte offset of the slot eval writes.
EvalOffset(b) == b.current * b.ld * ItemSize

InBounds(b, byteOff, nelems) ==
    /\ byteOff \div ItemSize \in DOMAIN b.mem
    /\ (byteOff \div ItemSize + nelems - 1) \in DOMAIN b.mem

\* MorrisLecar.eval: integrates and writes the new voltages into the slot
\* at the cursor.
eval ==
    /\ pc = "eval"
    /\ LET newV == [i \in DOMAIN neu.V |->
                      EulerV(neu.V[i], neu.n[i], neu.I_pre[i],
                             OffsetOf(TypeOf(sys.start_idx, i)))]
           newN == [i \in DOMAIN neu.n |-> EulerN(neu.V[i], neu.n[i])]
       IN /\ neu' = [neu EXCEPT !.V = newV, !.n = newN]
          /\ buf' = [buf EXCEPT !.mem =
                        MemCopy(buf.mem, EvalOffset(buf), newV, sys.num_neurons)]
          /\ hist' = Append(hist, newV)
    /\ writes' = writes + 1
    /\ trace' = Append(trace, "eval")
    /\ pc' = After("eval")
    /\ UNCHANGED <<err, sys, post_neuron, syn, I_ext, out, tick, vread, advances, twin>>

\* MorrisLecar.eval when the slot lies outside the allocation and the
\* device faults on the write.
eval_fault ==
    /\ pc = "eval"
    /\ ~InBounds(buf, EvalOffset(buf), sys.num_neurons)
    /\ writes' = writes + 1
    /\ trace' = Append(trace, "eval")
    /\ pc' = "crashed"
    /\ err' = "LaunchError"
    /\ UNCHANGED <<sys, post_neuron, buf, neu, syn, I_ext, out, tick, hist,
                   vread, advances, twin>>

\* Slot a synapse of the given delay reads: (current - delay) mod D.
ReadSlot(current, delay, delay_steps) == Mod(current - delay, delay_steps)

Clamp(x, lo, hi) == IF x < lo THEN lo ELSE IF x > hi THEN hi ELSE x

\* saturation * clamp(slope * (V - threshold), 0, 1) ^ power on levels,
\* with slope -1, saturation 1 and power 1.
Conductance(Vd, thres) == 1 * Clamp((-1) * (Vd - thres), 0, 1)

\* The voltage synapse j reads from the buffer; oob when the address lies
\* outside the allocation.
DelayedV(b, pre, delay, oob) ==
    IF b.delay_steps <= 0 THEN oob
    ELSE LET a == ReadSlot(b.current, delay, b.delay_steps) * b.ld + pre
         IN IF a \in DOMAIN b.mem THEN b.mem[a] ELSE oob

\* VectorSynapse.compute_synapse
compute_synapse ==
    /\ pc = "compute_synapse"
    /\ \E oob \in Volt :
          /\ (\A j \in DOMAIN syn.pre_neuron :
                 /\ buf.delay_steps > 0
                 /\ (ReadSlot(buf.current, syn.delay[j], buf.delay_steps) * buf.ld
                        + syn.pre_neuron[j]) \in DOMAIN buf.mem) => oob = 0
          /\ vread' = [j \in DOMAIN syn.pre_neuron |->
                          DelayedV(buf, syn.pre_neuron[j], syn.delay[j], oob)]
          /\ syn' = [syn EXCEPT !.conductance =
                        [j \in DOMAIN syn.pre_neuron |->
                            Conductance(DelayedV(buf, syn.pre_neuron[j],
                                                 syn.delay[j], oob),
                                        syn.threshold[j])]]
    /\ trace' = Append(trace, "compute_synapse")
    /\ pc' = After("compute_synapse")
    /\ UNCHANGED <<err, sys, post_neuron, buf, neu, I_ext, out, tick, hist,
                   writes, advances, twin>>

\* Lengths of the proj_non array the caller hands to run_step: main passes
\* rows of num_proj_non entries, a number the constructor never relates to
\* num_neurons.
ProjLenChoices == {1, sys.num_neurons, sys.num_neurons + 1}

\* A device-to-host copy that starts one element into the source.
memcpy_dtohShifted(len, V, oob) ==
    [i \in 0..(len - 1) |-> IF (i + 1) \in DOMAIN V THEN V[i + 1] ELSE oob]

\* memcpy_dtoh(dest, src): dest.nbytes bytes are copied from the device
\* pointer src; what lies behind the voltage array is not defined.
memcpy_dtoh(len, V, oob) ==
    [i \in 0..(len - 1) |-> IF i \in DOMAIN V THEN V[i] ELSE oob]

\* run_step clearing the accumulator after the host copy instead of before
\* the injection.
EmitThenFill ==
    /\ pc = "emit"
    /\ \E len \in ProjLenChoices, oob \in JunkChoices :
          /\ len <= Len0(neu.V) => oob = 0
          /\ out' = memcpy_dtoh(len, neu.V, oob)
    /\ neu' = [neu EXCEPT !.I_pre = ConstVec(sys.num_neurons, 0)]
    /\ trace' = Append(trace, "emit")
    /\ pc' = After("emit")
    /\ UNCHANGED <<err, sys, post_neuron, buf, syn, I_ext, tick, hist,
                   vread, writes, advances, twin>>

\* cuda.memcpy_dtoh(proj_non, self.neurons.V.gpudata)
Emit ==
    /\ pc = "emit"
    /\ \E len \in ProjLenChoices, oob \in JunkChoices :
          /\ len <= Len0(neu.V) => oob = 0
          /\ out' = memcpy_dtoh(len, neu.V, oob)
    /\ trace' = Append(trace, "emit")
    /\ pc' = After("emit")
    /\ UNCHANGED <<err, sys, post_neuron, buf, neu, syn, I_ext, tick, hist,
                   vread, writes, advances, twin>>

\* CircularArray.step wrapping one slot too late.
CircularArray_stepLate(b) ==
    LET c == b.current + 1
    IN [b EXCEPT !.current = IF c > b.delay_steps THEN 0 ELSE c]

\* CircularArray.step
CircularArray_step(b) ==
    LET c == b.current + 1
    IN [b EXCEPT !.current = IF c >= b.delay_steps THEN 0 ELSE c]

\* self.buffer.step(), after which run_step returns.
Advance ==
    /\ pc = "step"
    /\ buf' = CircularArray_step(buf)
    /\ advances' = advances + 1
    /\ tick' = tick + 1
    /\ trace' = Append(trace, "step")
    /\ I_ext' = Empty
    /\ out' = Empty
    /\ pc' = After("step")
    /\ UNCHANGED <<err, sys, post_neuron, neu, syn, hist, vread, writes, twin>>

\* The shared device objects each statement of run_step hands to a writing
\* and to a reading operation: I_pre.fill and update_I_pre_input write the
\* accumulator; read_synapse reads and writes it; eval reads it, reads the
\* cursor and writes a slot; compute_synapse reads the buffer; the host
\* copy touches neither; step reads and writes the cursor.
Phases == {"inject", "aggregate", "eval", "compute_synapse", "emit", "step"}

Writes(p) ==
    CASE p = "inject" -> {"I_pre"}
      [] p = "aggregate" -> {"I_pre"}
      [] p = "eval" -> {"buffer"}
      [] p = "step" -> {"buffer"}
      [] OTHER -> {}

Reads(p) ==
    CASE p = "aggregate" -> {"I_pre"}
      [] p = "eval" -> {"I_pre", "buffer"}
      [] p = "compute_synapse" -> {"buffer"}
      [] p = "step" -> {"buffer"}
      [] OTHER -> {}

Next ==
    \/ MockSystem__init__
    \/ init_gpu_raises
    \/ init_gpu
    \/ Inject
    \/ Aggregate
    \/ eval
    \/ eval_fault
    \/ compute_synapse
    \/ Emit
    \/ Advance

Spec == Init /\ [][Next]_vars

\* ------------------------------------------------------------ two runs
\* Two MockSystem objects built from the same arguments and stepped with the
\* same inputs.  The first lives in the variables above, the second in twin.
\* numpy.random is seeded by __init__ (line 22), so both draw the same
\* pre_neuron and post_neuron; the rd.gauss draws come from Python's random
\* module, which nothing seeds, so each run has its own.  Uninitialised and
\* out-of-range memory is taken to read the same in both.

\* One whole run_step on the objects r = [buf, neu, syn, hist]: lines
\* 102-113 in order (the host copy of line 112 changes no object).
run_step(r, start_idx, ext, injOob, aggOob, synOob) ==
    LET nn == Len0(r.neu.V)
        I0 == update_I_pre_input(ConstVec(nn, 0), ext, r.neu.num_input, injOob)
        I1 == get_input(I0, r.neu.V, r.neu.cum_num_dendrite,
                        r.syn.conductance, r.syn.V_rev, aggOob)
        newV == [i \in DOMAIN r.neu.V |->
                    EulerV(r.neu.V[i], r.neu.n[i], I1[i],
                           OffsetOf(TypeOf(start_idx, i)))]
        newN == [i \in DOMAIN r.neu.n |-> EulerN(r.neu.V[i], r.neu.n[i])]
        b1 == [r.buf EXCEPT !.mem = MemCopy(r.buf.mem, EvalOffset(r.buf), newV, nn)]
        g1 == [j \in DOMAIN r.syn.pre_neuron |->
                  Conductance(DelayedV(b1, r.syn.pre_neuron[j],
                                       r.syn.delay[j], synOob),
                              r.syn.threshold[j])]
    IN [buf |-> CircularArray_step(b1),
        neu |-> [r.neu EXCEPT !.I_pre = I1, !.V = newV, !.n = newN],
        syn |-> [r.syn EXCEPT !.conductance = g1],
        hist |-> Append(r.hist, newV)]

\* The objects init_gpu builds from its draws.
Built3(s, pre, post, x, g, th, rv, junk) ==
    LET nn == s.num_neurons
        J == DOMAIN pre
        V == VoltVec(nn, x)
        D == DelaySteps(s.dtNum, s.dtDen)
    IN [buf |-> CircularArray__init__(nn, D, V, junk),
        neu |-> MorrisLecar__init__(nn, s.start_idx, Bincount(post), V,
                                    ConstVec(nn, g), s.num_in_non \div nn),
        syn |-> VectorSynapse__init__(s.num_synapses, pre, [j \in J |-> th],
                                      [j \in J |-> rv], s.dtNum, s.dtDen),
        hist |-> <<>>]

\* MockSystem(...) and init_gpu() twice with the same arguments, for the
\* arguments with which init_gpu returns and the buffer has a slot.
TwinConstruct ==
    /\ pc = "new"
    /\ \E dn \in DtNumChoices, dd \in 1 .. MaxDtDen, inn \in InNonChoices :
          LET s0 == [NoSys EXCEPT
                        !.num_neurons = NumTypes, !.num_synapses = 1,
                        !.dtNum = dn, !.dtDen = dd, !.num_in_non = inn,
                        !.start_idx = [i \in 0 .. (NumTypes - 1) |-> i]]
              J == 0 .. 0
          IN /\ Gcd(Abs(dn), dd) = 1
             /\ InitGpuError(s0) = ""
             /\ DelaySteps(dn, dd) >= 1
             /\ \E pre \in [J -> PreChoices(NumTypes)],
                   post \in [J -> PostChoices(NumTypes)],
                   junk \in JunkChoices,
                   x1 \in RestChoices, x2 \in RestChoices,
                   g1 \in GateChoices, g2 \in GateChoices,
                   th1 \in ThresChoices, th2 \in ThresChoices,
                   rv1 \in RevChoices, rv2 \in RevChoices :
                   LET a == Built3(s0, pre, post, x1, g1, th1, rv1, junk)
                       b == Built3(s0, pre, post, x2, g2, th2, rv2, junk)
                   IN /\ sys' = [s0 EXCEPT !.num_dendrites = Bincount(post),
                                           !.delay_steps = DelaySteps(dn, dd)]
                      /\ post_neuron' = post
                      /\ buf' = a.buf
                      /\ neu' = a.neu
                      /\ syn' = a.syn
                      /\ twin' = b
                      /\ vread' = [j \in J |-> 0]
    /\ pc' = "ready"
    /\ UNCHANGED <<err, I_ext, out, tick, hist, writes, advances, trace>>

\* run_step on both objects with the same in_non_list.
TwinRunStep ==
    /\ pc = "ready"
    /\ tick < MaxTicks
    /\ \E L \in LenChoices, c \in CurrentVals, injOob \in CurrentVals,
          aggOob \in AggJunkChoices, synOob \in Volt :
          LET ext == ConstVec(L, c)
              a == run_step([buf |-> buf, neu |-> neu, syn |-> syn, hist |-> hist],
                            sys.start_idx, ext, injOob, aggOob, synOob)
              b == run_step(twin, sys.start_idx, ext, injOob, aggOob, synOob)
          IN /\ (L >= neu.num_input) => injOob = 0
             /\ (L = 0) => c = 0
             /\ (\A i \in DOMAIN neu.I_pre :
                    (i + 1) \in DOMAIN neu.cum_num_dendrite) => aggOob = 0
             /\ (\A j \in DOMAIN syn.pre_neuron :
                    (ReadSlot(buf.current, syn.delay[j], buf.delay_steps) * buf.ld
                        + syn.pre_neuron[j]) \in DOMAIN buf.mem) => synOob = 0
             /\ buf' = a.buf
             /\ neu' = a.neu
             /\ syn' = a.syn
             /\ hist' = a.hist
             /\ twin' = b
    /\ tick' = tick + 1
    /\ writes' = writes + 1
    /\ advances' = advances + 1
    /\ UNCHANGED <<pc, err, sys, post_neuron, I_ext, out, vread, trace>>

NextTwin ==
    \/ TwinConstruct
    \/ TwinRunStep

SpecTwin == Init /\ [][NextTwin]_vars

\* ------------------------------------------------- the two-neuron scenario
\* CircularArray, MorrisLecar and VectorSynapse assembled as init_gpu
\* assembles them (lines 86-97), for a network of two neurons of one type
\* and one synapse 0 -> 1 whose delay of DelayMs is ScenDelayTicks steps
\* of dt, both neurons at the same resting state, no input channel.
ScenNeurons == 2
ScenDelayTicks == 2

InitScenario ==
    \E x \in Volt, g \in GateChoices, th \in ThresChoices, rv \in Volt,
       junk \in JunkChoices :
       LET J == 0 .. 0
           pre == [j \in J |-> 0]
           post == [j \in J |-> 1]
           V == ConstVec(ScenNeurons, x)
           start == [t \in 0 .. 0 |-> 0]
           D == DelaySteps(1, ScenDelayTicks)
       IN /\ pc = "ready"
          /\ err = ""
          /\ sys = [NoSys EXCEPT !.num_neurons = ScenNeurons,
                                 !.num_synapses = 1,
                                 !.dtNum = 1, !.dtDen = ScenDelayTicks,
                                 !.start_idx = start,
                                 !.num_dendrites = Bincount(post),
                                 !.delay_steps = D]
          /\ post_neuron = post
          /\ buf = CircularArray__init__(ScenNeurons, D, V, junk)
          /\ neu = MorrisLecar__init__(ScenNeurons, start, Bincount(post), V,
                                       ConstVec(ScenNeurons, g), 0)
          /\ syn = VectorSynapse__init__(1, pre, [j \in J |-> th],
                                         [j \in J |-> rv], 1, ScenDelayTicks)
          /\ I_ext = Empty
          /\ out = Empty
          /\ tick = 0
          /\ hist = <<>>
          /\ vread = [j \in J |-> 0]
          /\ writes = 0
          /\ advances = 0
          /\ trace = <<>>
          /\ twin = NoTwin

NextScenario ==
    \/ Inject
    \/ Aggregate
    \/ eval
    \/ compute_synapse
    \/ Emit
    \/ Advance

SpecScenario == InitScenario /\ [][NextScenario]_vars

\* ------------------------------------------------------------------ claims
Running == pc \in {"aggregate", "eval", "compute_synapse", "emit", "step"}

Built == pc = "ready" \/ Running \/ pc = "crashed"

PhaseOrder == <<"inject", "aggregate", "eval", "compute_synapse", "emit", "step">>

IsPrefix(a, b) == Len(a) <= Len(b) /\ \A k \in 1 .. Len(a) : a[k] = b[k]

\* C1: every run_step call executes Inject, Aggregate, eval (the buffer
\* write), compute_synapse, Emit, CircularArray.step in this order: the
\* phases executed so far are a prefix of the order and the next phase is
\* the next of the order; the buffer is written once per tick and the cursor
\* advanced once per tick; when compute_synapse is about to read, this
\* tick's write is done and its advance is not; a call starts only after
\* the previous call's advance.
C1_PhaseOrder ==
    /\ IsPrefix(trace, PhaseOrder)
    /\ Running => pc = PhaseOrder[Len(trace) + 1]
    /\ (pc = "ready" /\ tick > 0) => trace = PhaseOrder
    /\ (pc = "ready") => (writes = tick /\ advances = tick)
    /\ Running => (advances = tick /\ writes = (IF Len(trace) >= 3 THEN tick + 1 ELSE tick))
    /\ (pc = "compute_synapse") => (writes = tick + 1 /\ advances = tick)
    /\ (pc = "crashed") => (writes = tick + 1 /\ advances = tick)

C1_Witness ==
    /\ pc = "ready"
    /\ tick = 2
    /\ trace = PhaseOrder
    /\ writes = 2
    /\ advances = 2

\* The value the buffer holds for neuron i in slot s, as eval and the
\* synapse kernel address it.
SlotValue(s, i) == buf.mem[s * buf.ld + i]

\* C2 as stated: after tick k (k = tick - 1) wrote v_k and the cursor was
\* advanced k+1 times, slot (current - d) mod D holds v_{k-d} for every
\* d <= k, d < D.
C2_Original ==
    (pc = "ready" /\ tick >= 1 /\ buf.delay_steps >= 1) =>
        \A d \in 0 .. (buf.delay_steps - 1), i \in 0 .. (sys.num_neurons - 1) :
            d <= tick - 1 =>
                SlotValue(ReadSlot(buf.current, d, buf.delay_steps), i)
                    = hist[(tick - 1 - d) + 1][i]

\* C2 amended: after tick k wrote v_k and the cursor was advanced k+1
\* times, slot (current - 1 - d) mod D holds v_{k-d} for every d <= k,
\* d < D.
C2_BufferCorrect ==
    (pc = "ready" /\ tick >= 1 /\ buf.delay_steps >= 1) =>
        \A d \in 0 .. (buf.delay_steps - 1), i \in 0 .. (sys.num_neurons - 1) :
            d <= tick - 1 =>
                SlotValue(ReadSlot(buf.current, d + 1, buf.delay_steps), i)
                    = hist[(tick - 1 - d) + 1][i]

C2_Witness ==
    /\ pc = "ready"
    /\ tick = 3
    /\ buf.delay_steps = 2
    /\ buf.current = 1
    /\ hist[3] # hist[2]
    /\ SlotValue(0, 0) = hist[3][0]
    /\ SlotValue(1, 0) = hist[2][0]

\* C3: right after construction every slot holds the resting voltages: the
\* element that eval addresses as (slot s, neuron i) equals rest[i] for
\* every slot s < D and every neuron i.
C3_Prefill ==
    (pc = "ready" /\ tick = 0) =>
        \A s \in 0 .. (buf.delay_steps - 1), i \in 0 .. (sys.num_neurons - 1) :
            SlotValue(s, i) = neu.V[i]

\* C4: after init_gpu every synapse's tick delay is at least 0 and less
\* than the depth of the delay buffer.
C4_DelayInRange ==
    Built => \A j \in DOMAIN syn.delay :
                 0 <= syn.delay[j] /\ syn.delay[j] < buf.delay_steps

\* C5: when the synapse update of tick t has run, a synapse with tick delay
\* d <= t read the voltage its presynaptic neuron had after tick t - d
\* (buffer of positive depth, presynaptic index inside the network).
C5_DelayCorrect ==
    (pc = "emit" /\ buf.delay_steps >= 1) =>
        \A j \in DOMAIN syn.delay :
            (/\ syn.delay[j] >= 0
             /\ syn.delay[j] <= tick
             /\ syn.pre_neuron[j] < sys.num_neurons)
                => vread[j] = hist[(tick - syn.delay[j]) + 1][syn.pre_neuron[j]]

\* C6: the offset table has num_neurons + 1 entries, starts at 0, is
\* non-decreasing, ends at num_synapses, and the range of neuron i is the
\* set of synapses whose postsynaptic index is i.
C6_OffsetsPartition ==
    Built =>
        LET cum == neu.cum_num_dendrite
            nn == sys.num_neurons
        IN /\ DOMAIN cum = 0 .. nn
           /\ cum[0] = 0
           /\ \A i \in 0 .. (nn - 1) : cum[i] <= cum[i + 1]
           /\ cum[nn] = sys.num_synapses
           /\ \A i \in 0 .. (nn - 1) :
                 {j \in DOMAIN post_neuron : cum[i] <= j /\ j < cum[i + 1]}
                     = {j \in DOMAIN post_neuron : post_neuron[j] = i}

\* C7: while a tick runs, every synapse's presynaptic and postsynaptic
\* index lies in [0, num_neurons).
C7_IndicesInRange ==
    Running =>
        \A j \in DOMAIN syn.pre_neuron :
            /\ syn.pre_neuron[j] \in 0 .. (sys.num_neurons - 1)
            /\ post_neuron[j] \in 0 .. (sys.num_neurons - 1)

\* C8: a system that init_gpu returned, and every tick that runs, has a
\* delay buffer of depth at least 1.
C8_PositiveDepth == Built => buf.delay_steps >= 1

\* C9: no tick proceeds past Inject with an external-current vector whose
\* length differs from num_in_non.
C9_LengthChecked == Running => Len0(I_ext) = sys.num_in_non

\* C10: the number of values Inject copies equals num_in_non, and
\* computing it never raises IndexError.
C10_NumInput ==
    /\ Built => neu.num_input = sys.num_in_non
    /\ err # "IndexError"

\* C11: when run_step has emitted, the output holds one value per neuron and
\* output[i] is the voltage neuron i has after this tick's integration,
\* whatever the length of the array the caller passed.
C11_FullOutput ==
    pc = "step" =>
        /\ DOMAIN out = 0..(sys.num_neurons - 1)
        /\ \A i \in DOMAIN out : out[i] = neu.V[i]

\* C11 as amended: the output has the length of the caller's array, and
\* output[i] is this tick's voltage of neuron i for every i below both that
\* length and num_neurons.
C11_Prefix ==
    pc = "step" =>
        /\ \E len \in ProjLenChoices : DOMAIN out = 0..(len - 1)
        /\ \A i \in DOMAIN out \cap DOMAIN neu.V :
              /\ out[i] = neu.V[i]
              /\ out[i] = hist[Len(hist)][i]

C11_Witness ==
    /\ pc = "step"
    /\ tick = 1
    /\ DOMAIN out = 0..0
    /\ out[0] = neu.V[0]
    /\ \E i \in DOMAIN neu.V : neu.V[i] # neu.V[0]
    /\ hist[1] # hist[2]
\* C12: the Aggregate phase conserves current: with the one synapse p -> q of
\* conductance g and reversal potential E, the accumulator of q grows by
\* exactly g * (E - V_q) and the accumulator of every other neuron keeps the
\* injected value (with no synapse onto a neuron, it keeps the injected
\* value).
C12_Conservation ==
    [][pc = "aggregate" =>
          \A i \in DOMAIN neu.I_pre :
              neu'.I_pre[i] = neu.I_pre[i]
                  + SumRange([j \in DOMAIN post_neuron |->
                                 IF post_neuron[j] = i
                                   THEN syn.conductance[j]
                                            * (syn.V_rev[j] - neu.V[i])
                                   ELSE 0],
                             0, Len0(post_neuron))]_vars
\* C13: two runs built from identical constructor arguments and fed the
\* same external currents produce the same voltage vectors at every tick.
C13_Determinism ==
    (pc = "ready" /\ twin # NoTwin) => hist = twin.hist
PhaseAt == IF pc = "ready" THEN "inject" ELSE pc

Mutators(res) == {p \in Phases : res \in Writes(p)}

ReadersOnly(res) == {p \in Phases : res \in Reads(p) /\ res \notin Writes(p)}

\* C15: within one tick the accumulator and the delay buffer are each
\* mutated by exactly one phase: the injection, which always overwrites the
\* accumulator, is the only phase that changes it, and the integration,
\* which always writes a slot, is the only phase that changes the buffer.
C15_Original ==
    [][(pc = "ready" \/ Running) =>
          /\ neu'.I_pre # neu.I_pre => PhaseAt = "inject"
          /\ buf' # buf => PhaseAt = "eval"]_vars

\* C15 as amended: within one tick the accumulator is changed only by the
\* injection and the aggregation and read by one further phase, the
\* integration; the buffer is changed only by the integration (slots) and
\* the final step (cursor) and read by one further phase, the synapse
\* update.
C15_TwoMutators ==
    [][(pc = "ready" \/ Running) =>
          /\ neu'.I_pre # neu.I_pre => "I_pre" \in Writes(PhaseAt)
          /\ buf' # buf => "buffer" \in Writes(PhaseAt)
          /\ buf'.mem # buf.mem => PhaseAt = "eval"
          /\ buf'.current # buf.current => PhaseAt = "step"
          /\ Mutators("I_pre") = {"inject", "aggregate"}
          /\ Mutators("buffer") = {"eval", "step"}
          /\ ReadersOnly("I_pre") = {"eval"}
          /\ ReadersOnly("buffer") = {"compute_synapse"}]_vars

C15_Witness ==
    /\ pc = "eval"
    /\ tick >= 1
    /\ Len0(I_ext) >= neu.num_input
    /\ neu.num_input >= 1
    /\ I_ext[0] = 1
    /\ neu.I_pre # update_I_pre_input(ConstVec(sys.num_neurons, 0), I_ext,
                                      neu.num_input, 0)
    /\ buf.current # 0
    /\ writes >= 1
\* C16: with a buffer of D >= 1 slots the cursor always satisfies
\* 0 <= current < D; CircularArray.step changes it to (current + 1) mod D and
\* changes nothing else of the buffer, the neurons or the synapses; after t
\* returned ticks current = t mod D.
C16_Cursor ==
    /\ []((Built /\ buf.delay_steps >= 1) =>
            /\ 0 <= buf.current
            /\ buf.current < buf.delay_steps
            /\ buf.current = advances % buf.delay_steps
            /\ pc = "ready" => buf.current = tick % buf.delay_steps)
    /\ [][(pc = "step" /\ buf.delay_steps >= 1) =>
             /\ buf' = [buf EXCEPT
                           !.current = (buf.current + 1) % buf.delay_steps]
             /\ neu' = neu
             /\ syn' = syn
             /\ hist' = hist]_vars

C16_Witness ==
    /\ pc = "ready"
    /\ buf.delay_steps = 2
    /\ tick = 3
    /\ advances = 3
    /\ buf.current = 1
\* C17: when compute_synapse reads during tick k, the slot at the cursor
\* holds the voltages of tick k, and for every d with 0 <= d < D and d <= k
\* the slot (current - d) mod D holds the voltages of tick k - d.
C17_SlotsAtRead ==
    (pc = "compute_synapse" /\ buf.delay_steps >= 1) =>
        \A d \in 0 .. (buf.delay_steps - 1) :
            d <= tick =>
                \A i \in 0 .. (sys.num_neurons - 1) :
                    SlotValue((buf.current - d + buf.delay_steps)
                                  % buf.delay_steps, i)
                        = hist[tick + 1 - d][i]

C17_Witness ==
    /\ pc = "compute_synapse"
    /\ buf.delay_steps = 2
    /\ tick = 2
    /\ buf.current = 0
    /\ hist[3] # hist[2]
    /\ \A i \in 0 .. (sys.num_neurons - 1) :
          /\ SlotValue(0, i) = hist[3][i]
          /\ SlotValue(1, i) = hist[2][i]
\* C18: when the aggregation starts, I_pre[i] is this tick's external
\* current for every neuron i below num_input and 0 for every other neuron,
\* whatever the accumulators held at the end of the tick before.
C18_FreshAccumulator ==
    pc = "aggregate" =>
        \A i \in DOMAIN neu.I_pre :
            /\ (i < neu.num_input /\ i \in DOMAIN I_ext) => neu.I_pre[i] = I_ext[i]
            /\ i >= neu.num_input => neu.I_pre[i] = 0

C18_Witness ==
    /\ pc = "aggregate"
    /\ tick >= 1
    /\ neu.num_input = 1
    /\ I_ext = ConstVec(sys.num_in_non, 1)
    /\ neu.I_pre[0] = 1
    /\ \A i \in 1 .. (sys.num_neurons - 1) : neu.I_pre[i] = 0
    /\ syn.conductance[0] = 1
\* C19: the conductances the aggregation consumes are one tick old: in tick
\* 0 they are all 0; in a later tick they are what the synapse update of the
\* tick before left, because the aggregation of a tick runs before that
\* tick's synapse update and no step of a built system other than the
\* synapse update changes them.
C19_OneTickOld ==
    /\ [](pc = "aggregate" =>
            /\ tick = 0 => \A j \in DOMAIN syn.conductance :
                               syn.conductance[j] = 0
            /\ \A k \in 1 .. Len(trace) : trace[k] # "compute_synapse")
    /\ [][(Built /\ syn'.conductance # syn.conductance) =>
             pc = "compute_synapse"]_vars

C19_Witness ==
    /\ pc = "aggregate"
    /\ tick = 2
    /\ trace = <<"inject">>
    /\ syn.conductance[0] = 1
    /\ vread[0] = 0
====
